---- MODULE Spec2Model ----
(***************************************************************************)
(* Interaction dispatch and the reply guard of disgo.                      *)
(*                                                                         *)
(*   handlers: gatewayHandlerInteractionCreate, respond, handleInteraction *)
(*   events:   InteractionResponseState and the interaction events         *)
(*                                                                         *)
(* Subscribers are modelled as processes that call, through a notification *)
(* they received, either the responder (Respond) or one of the state       *)
(* queries (ResponseType, IsDefferedReply, IsDefferedUpdate).  Every lock  *)
(* operation and the transport call are separate steps, so that calls of   *)
(* different subscribers interleave as goroutines do.                      *)
(***************************************************************************)
EXTENDS Naturals, Integers, Sequences, FiniteSets, TLC

\* ------------------------------------------------------------------ bounds
\* the subscribers, and the calls they make in all
NumProcs == 2
MaxCalls == 2

\* Spec follows one inbound interaction from its delivery on
Interactions == {1}
Procs == 1..NumProcs

\* ------------------------------------------------------------- vocabulary
\* a nil pointer (*discord.InteractionResponseType, *InteractionResponseState)
None == "nil"
\* a nil error
NilError == "ok"
ErrInteractionAlreadyReplied == "ErrInteractionAlreadyReplied"
\* the errors a transport call may return
TransportErrors == {"errTimeout", "errRejected"}
\* what a transport call returns in the specifications below: nil or an error
RestResults == {NilError, "errTimeout"}

Acknowledge == "Acknowledge"
DeferredCreateMessage == "DeferredCreateMessage"
DeferredUpdateMessage == "DeferredUpdateMessage"
CreateMessage == "CreateMessage"
UpdateMessage == "UpdateMessage"
Modal == "Modal"
AutocompleteResult == "AutocompleteResult"
LaunchActivity == "LaunchActivity"
\* the reply kinds subscribers pass to Respond
SendKinds == {Acknowledge, DeferredCreateMessage, DeferredUpdateMessage}

Generic == "InteractionCreate"
KnownVariants == {"ApplicationCommand", "Component", "Autocomplete", "ModalSubmit"}
Variants == KnownVariants \cup {"Unknown"}

\* mutant: the component case builds the application command event
VariantEventSwapped(v) ==
    CASE v = "ApplicationCommand" -> "ApplicationCommandInteractionCreate"
      [] v = "Component" -> "ApplicationCommandInteractionCreate"
      [] v = "Autocomplete" -> "AutocompleteInteractionCreate"
      [] v = "ModalSubmit" -> "ModalSubmitInteractionCreate"

\* the event type handleInteraction's switch builds for each case
VariantEvent(v) ==
    CASE v = "ApplicationCommand" -> "ApplicationCommandInteractionCreate"
      [] v = "Component" -> "ComponentInteractionCreate"
      [] v = "Autocomplete" -> "AutocompleteInteractionCreate"
      [] v = "ModalSubmit" -> "ModalSubmitInteractionCreate"

Ops == {"Respond", "ResponseType", "IsDefferedReply", "IsDefferedUpdate"}

VARIABLES
    dpc,        \* dpc[i]: where handleInteraction is for interaction i
    inter,      \* inter[i]: the arguments of handleInteraction for i
    guards,     \* the InteractionResponseState objects allocated so far
    events,     \* the events passed to EventManager.DispatchEvent, in order
    logged,     \* the interactions reported by client.Logger.Error, in order
    proc,       \* proc[p]: the call subscriber p is making (or made last)
    history,    \* the Respond calls that returned, in order of return
    ncalls      \* number of calls started so far

vars == <<dpc, inter, guards, events, logged, proc, history, ncalls>>

NoInteraction ==
    [variant |-> None, respondFunc |-> FALSE, responder |-> None,
     responseState |-> 0]

\* method and arg are the event method the call came through and its
\* argument (nil for a call of the Respond field itself); kind and data are
\* the responseType and data Respond was called with
IdleProc ==
    [pc |-> "idle", op |-> None, method |-> None, arg |-> None, ev |-> 0,
     kind |-> None, data |-> None,
     guardAtCall |-> None, calls |-> <<>>, result |-> None]

\* ------------------------------------------------ InteractionResponseState
\* NewInteractionResponseState: a zero value, unlocked and with no type
NewInteractionResponseState ==
    [ResponseTypeValue |-> None, writer |-> 0, readers |-> {}]

\* the value ResponseType() returns for the state object g (0 is a nil receiver)
ResponseType(g) ==
    IF g = 0 THEN None
    ELSE IF guards[g].ResponseTypeValue = None THEN None
    ELSE guards[g].ResponseTypeValue

\* mutant: the comparison of IsDefferedUpdate copied into IsDefferedReply
IsDefferedReplySwapped(g) ==
    LET responseType == ResponseType(g)
    IN  responseType # None /\ responseType = DeferredUpdateMessage

IsDefferedReply(g) ==
    LET responseType == ResponseType(g)
    IN  responseType # None /\ responseType = DeferredCreateMessage

IsDefferedUpdate(g) ==
    LET responseType == ResponseType(g)
    IN  responseType # None /\ responseType = DeferredUpdateMessage

\* what the query op returns on the state object g (the events' methods of
\* these names delegate to e.ResponseState)
QueryResult(op, g) ==
    CASE op = "ResponseType" -> ResponseType(g)
      [] op = "IsDefferedReply" -> IsDefferedReply(g)
      [] op = "IsDefferedUpdate" -> IsDefferedUpdate(g)

\* sync.RWMutex: RLock waits for the writer, Lock for the writer and the readers.
\* On a nil receiver ResponseType returns before it locks
CanRLock(g) == g = 0 \/ guards[g].writer = 0
CanLock(g) == guards[g].writer = 0 /\ guards[g].readers = {}
RLocked(g, p) ==
    IF g = 0 THEN guards ELSE [guards EXCEPT ![g].readers = @ \cup {p}]
RUnlocked(g, p) ==
    IF g = 0 THEN guards ELSE [guards EXCEPT ![g].readers = @ \ {p}]

\* ------------------------------------------------------------ the responder
\* the closure respond() returns: bound to the interaction, its sink and state
Responder(i, respondFunc, g) ==
    [interaction |-> i, respondFunc |-> respondFunc, responseState |-> g]

\* the state object a call goes to: Respond uses the one its closure captured,
\* the queries use the event's ResponseState field
Target(e, op) ==
    IF op = "Respond" THEN events[e].Respond.responseState
    ELSE events[e].ResponseState

GuardOf(p) == Target(proc[p].ev, proc[p].op)

TypeOK ==
    /\ dpc \in [Interactions -> {"new", "generic", "done"}]
    /\ ncalls \in 0..MaxCalls
    /\ Len(history) <= MaxCalls

Init ==
    /\ dpc = [i \in Interactions |-> "new"]
    /\ inter = [i \in Interactions |-> NoInteraction]
    /\ guards = <<>>
    /\ events = <<>>
    /\ logged = <<>>
    /\ proc = [p \in Procs |-> IdleProc]
    /\ history = <<>>
    /\ ncalls = 0

\* ------------------------------------------------------------- the handlers
\* the event of the generic broadcast
NewInteractionCreate(i, responder, responseState) ==
    [type |-> Generic, interaction |-> i,
     Respond |-> responder, ResponseState |-> responseState]

\* mutant: the variant event is built without its ResponseState field
NewVariantInteractionCreateNoState(i, v, responder, responseState) ==
    [type |-> VariantEvent(v), interaction |-> i,
     Respond |-> responder, ResponseState |-> 0]

\* the event of the variant broadcast
NewVariantInteractionCreate(i, v, responder, responseState) ==
    [type |-> VariantEvent(v), interaction |-> i,
     Respond |-> responder, ResponseState |-> responseState]

\* mutant: the variant event is dispatched where the generic one should be
HandleInteractionVariantFirst(i, v, respondFunc) ==
    /\ dpc[i] = "new"
    /\ LET responseState == Len(guards) + 1
           responder == Responder(i, respondFunc, responseState)
       IN  /\ guards' = Append(guards, NewInteractionResponseState)
           /\ inter' = [inter EXCEPT ![i] =
                  [variant |-> v, respondFunc |-> respondFunc,
                   responder |-> responder,
                   responseState |-> responseState]]
           /\ events' = Append(events,
                  IF v \in KnownVariants
                  THEN NewVariantInteractionCreate(i, v, responder, responseState)
                  ELSE NewInteractionCreate(i, responder, responseState))
    /\ dpc' = [dpc EXCEPT ![i] = "generic"]
    /\ UNCHANGED <<logged, proc, history, ncalls>>

\* mutant: one state object for the package, made by the first interaction
HandleInteractionSharedState(i, v, respondFunc) ==
    /\ dpc[i] = "new"
    /\ LET responseState == 1
           responder == Responder(i, respondFunc, responseState)
       IN  /\ guards' = IF guards = <<>> THEN <<NewInteractionResponseState>>
                         ELSE guards
           /\ inter' = [inter EXCEPT ![i] =
                  [variant |-> v, respondFunc |-> respondFunc,
                   responder |-> responder,
                   responseState |-> responseState]]
           /\ events' = Append(events,
                  NewInteractionCreate(i, responder, responseState))
    /\ dpc' = [dpc EXCEPT ![i] = "generic"]
    /\ UNCHANGED <<logged, proc, history, ncalls>>

\* handleInteraction up to and including the generic DispatchEvent
HandleInteraction(i, v, respondFunc) ==
    /\ dpc[i] = "new"
    /\ LET responseState == Len(guards) + 1
           responder == Responder(i, respondFunc, responseState)
       IN  /\ guards' = Append(guards, NewInteractionResponseState)
           /\ inter' = [inter EXCEPT ![i] =
                  [variant |-> v, respondFunc |-> respondFunc,
                   responder |-> responder,
                   responseState |-> responseState]]
           /\ events' = Append(events,
                  NewInteractionCreate(i, responder, responseState))
    /\ dpc' = [dpc EXCEPT ![i] = "generic"]
    /\ UNCHANGED <<logged, proc, history, ncalls>>

\* gatewayHandlerInteractionCreate: handleInteraction with a nil respondFunc
GatewayHandlerInteractionCreate(i, v) == HandleInteraction(i, v, FALSE)

\* mutant: the default case reports nothing
SwitchInteractionSilent(i) ==
    /\ dpc[i] = "generic"
    /\ IF inter[i].variant \in KnownVariants
       THEN events' = Append(events,
                NewVariantInteractionCreate(i, inter[i].variant,
                    inter[i].responder, inter[i].responseState))
       ELSE UNCHANGED events
    /\ dpc' = [dpc EXCEPT ![i] = "done"]
    /\ UNCHANGED <<inter, guards, logged, proc, history, ncalls>>

\* handleInteraction's type switch
SwitchInteraction(i) ==
    /\ dpc[i] = "generic"
    /\ IF inter[i].variant \in KnownVariants
       THEN /\ events' = Append(events,
                   NewVariantInteractionCreate(i, inter[i].variant,
                       inter[i].responder, inter[i].responseState))
            /\ UNCHANGED logged
       ELSE /\ logged' = Append(logged, i)
            /\ UNCHANGED events
    /\ dpc' = [dpc EXCEPT ![i] = "done"]
    /\ UNCHANGED <<inter, guards, proc, history, ncalls>>

\* ----------------------------------------------------------- the subscribers
\* the record of a Respond call that returned
Returned(p, r) ==
    [p |-> p, method |-> r.method, arg |-> r.arg, ev |-> r.ev,
     kind |-> r.kind, data |-> r.data,
     guardAtCall |-> r.guardAtCall, calls |-> r.calls, result |-> r.result]

\* the entry of Respond or of a query, called through event e; the first
\* thing either does is ResponseType's s.Mu.RLock().  c gives the method the
\* call came through, its argument and the data passed to Respond
Enter(p, e, op, kind, c) ==
    /\ proc[p].pc \in {"idle", "done"}
    /\ ncalls < MaxCalls
    /\ e \in 1..Len(events)
    /\ CanRLock(Target(e, op))
    /\ guards' = RLocked(Target(e, op), p)
    /\ proc' = [proc EXCEPT ![p] =
           [pc |-> "rlocked", op |-> op, method |-> c.method, arg |-> c.arg,
            ev |-> e, kind |-> kind, data |-> c.data,
            guardAtCall |-> ResponseType(Target(e, op)),
            calls |-> <<>>, result |-> None]]
    /\ ncalls' = ncalls + 1
    /\ UNCHANGED <<dpc, inter, events, logged, history>>

\* a subscriber calls the Respond field or a query of an event it was given
Call(p, e, op, kind) ==
    Enter(p, e, op, kind, [method |-> None, arg |-> None, data |-> None])

\* mutant: the two branches of the transport selection exchanged
TransportSwapped(responder) ==
    IF responder.respondFunc THEN "CreateInteractionResponse" ELSE "respondFunc"

\* the transport the responder uses for its call
Transport(responder) ==
    IF responder.respondFunc THEN "respondFunc" ELSE "CreateInteractionResponse"

\* the outbound call respond starts once its first check has passed
TransportCall(responder, responseType, data) ==
    [transport |-> Transport(responder), interaction |-> responder.interaction,
     type |-> responseType, data |-> data, err |-> "pending"]

\* mutant: respond without its first check
RUnlockNoCheck(p) ==
    /\ proc[p].pc = "rlocked"
    /\ LET r == proc[p]
       IN  /\ guards' = RUnlocked(GuardOf(p), p)
           /\ IF r.op # "Respond"
              THEN proc' = [proc EXCEPT ![p] =
                       [r EXCEPT !.pc = "done",
                                 !.result = QueryResult(r.op, GuardOf(p))]]
              ELSE proc' = [proc EXCEPT ![p] =
                       [r EXCEPT !.pc = "inflight",
                                 !.calls = Append(@,
                                     TransportCall(events[r.ev].Respond, r.kind, r.data))]]
    /\ UNCHANGED <<dpc, inter, events, logged, history, ncalls>>

\* mutant: respond keeps the read lock while it makes the outbound call
RUnlockKeepsLock(p) ==
    /\ proc[p].pc = "rlocked"
    /\ LET snap == ResponseType(GuardOf(p))
           r == proc[p]
           rejected == [r EXCEPT !.pc = "done",
                                 !.result = ErrInteractionAlreadyReplied]
       IN  IF r.op # "Respond"
           THEN /\ guards' = RUnlocked(GuardOf(p), p)
                /\ proc' = [proc EXCEPT ![p] =
                       [r EXCEPT !.pc = "done",
                                 !.result = QueryResult(r.op, GuardOf(p))]]
                /\ UNCHANGED history
           ELSE IF snap # None
           THEN /\ guards' = RUnlocked(GuardOf(p), p)
                /\ proc' = [proc EXCEPT ![p] = rejected]
                /\ history' = Append(history, Returned(p, rejected))
           ELSE /\ guards' = guards
                /\ proc' = [proc EXCEPT ![p] =
                       [r EXCEPT !.pc = "inflight",
                                 !.calls = Append(@,
                                     TransportCall(events[r.ev].Respond, r.kind, r.data))]]
                /\ UNCHANGED history
    /\ UNCHANGED <<dpc, inter, events, logged, ncalls>>

\* ResponseType: the read, the deferred RUnlock and the return.  A query
\* returns its result; respond returns ErrInteractionAlreadyReplied when a
\* type is recorded and starts the outbound call otherwise
RUnlock(p) ==
    /\ proc[p].pc = "rlocked"
    /\ LET snap == ResponseType(GuardOf(p))
           r == proc[p]
           rejected == [r EXCEPT !.pc = "done",
                                 !.result = ErrInteractionAlreadyReplied]
       IN  /\ guards' = RUnlocked(GuardOf(p), p)
           /\ IF r.op # "Respond"
              THEN /\ proc' = [proc EXCEPT ![p] =
                          [r EXCEPT !.pc = "done",
                                    !.result = QueryResult(r.op, GuardOf(p))]]
                   /\ UNCHANGED history
              ELSE IF snap # None
              THEN /\ proc' = [proc EXCEPT ![p] = rejected]
                   /\ history' = Append(history, Returned(p, rejected))
              ELSE /\ proc' = [proc EXCEPT ![p] =
                          [r EXCEPT !.pc = "inflight",
                                    !.calls = Append(@,
                                        TransportCall(events[r.ev].Respond, r.kind, r.data))]]
                   /\ UNCHANGED history
    /\ UNCHANGED <<dpc, inter, events, logged, ncalls>>

\* mutant: the type is recorded before err is looked at
TransportReturnRecords(p, err) ==
    /\ proc[p].pc = "inflight"
    /\ LET r == [proc[p] EXCEPT !.calls[Len(proc[p].calls)].err = err]
           failed == [r EXCEPT !.pc = "done", !.result = err]
       IN  IF err # NilError
           THEN /\ proc' = [proc EXCEPT ![p] = failed]
                /\ history' = Append(history, Returned(p, failed))
                /\ guards' = [guards EXCEPT
                       ![GuardOf(p)].ResponseTypeValue = proc[p].kind]
           ELSE /\ proc' = [proc EXCEPT ![p] = [r EXCEPT !.pc = "lock"]]
                /\ UNCHANGED <<history, guards>>
    /\ UNCHANGED <<dpc, inter, events, logged, ncalls>>

\* mutant: a failed outbound call is made once more
TransportReturnRetries(p, err) ==
    /\ proc[p].pc = "inflight"
    /\ LET r == [proc[p] EXCEPT !.calls[Len(proc[p].calls)].err = err]
           failed == [r EXCEPT !.pc = "done", !.result = err]
       IN  IF err # NilError /\ Len(r.calls) < 2
           THEN /\ proc' = [proc EXCEPT ![p] =
                       [r EXCEPT !.calls = Append(@,
                            TransportCall(events[r.ev].Respond, r.kind, r.data))]]
                /\ UNCHANGED history
           ELSE IF err # NilError
           THEN /\ proc' = [proc EXCEPT ![p] = failed]
                /\ history' = Append(history, Returned(p, failed))
           ELSE /\ proc' = [proc EXCEPT ![p] = [r EXCEPT !.pc = "lock"]]
                /\ UNCHANGED history
    /\ UNCHANGED <<dpc, inter, guards, events, logged, ncalls>>

\* respond: the outbound call returns err; a non-nil err is returned as it is
TransportReturn(p, err) ==
    /\ proc[p].pc = "inflight"
    /\ LET r == [proc[p] EXCEPT !.calls[Len(proc[p].calls)].err = err]
           failed == [r EXCEPT !.pc = "done", !.result = err]
       IN  IF err # NilError
           THEN /\ proc' = [proc EXCEPT ![p] = failed]
                /\ history' = Append(history, Returned(p, failed))
           ELSE /\ proc' = [proc EXCEPT ![p] = [r EXCEPT !.pc = "lock"]]
                /\ UNCHANGED history
    /\ UNCHANGED <<dpc, inter, guards, events, logged, ncalls>>

\* respond: responseState.Mu.Lock()
Lock(p) ==
    /\ proc[p].pc = "lock"
    /\ CanLock(GuardOf(p))
    /\ guards' = [guards EXCEPT ![GuardOf(p)].writer = p]
    /\ proc' = [proc EXCEPT ![p].pc = "locked"]
    /\ UNCHANGED <<dpc, inter, events, logged, history, ncalls>>

\* respond under the write lock: it returns ErrInteractionAlreadyReplied when
\* lost and nil otherwise, leaves stored in ResponseTypeValue and unlocks
CommitAs(p, lost, stored) ==
    /\ proc[p].pc = "locked"
    /\ LET r == [proc[p] EXCEPT !.pc = "done",
                     !.result = IF lost THEN ErrInteractionAlreadyReplied
                                ELSE NilError]
       IN  /\ guards' = [guards EXCEPT
                  ![GuardOf(p)].ResponseTypeValue = stored,
                  ![GuardOf(p)].writer = 0]
           /\ proc' = [proc EXCEPT ![p] = r]
           /\ history' = Append(history, Returned(p, r))
    /\ UNCHANGED <<dpc, inter, events, logged, ncalls>>

\* mutant: no second check under the lock
CommitNoRecheck(p) ==
    /\ proc[p].pc = "locked"
    /\ CommitAs(p, FALSE, proc[p].kind)

\* mutant: the second check inverted
CommitInverted(p) ==
    /\ proc[p].pc = "locked"
    /\ LET value == guards[GuardOf(p)].ResponseTypeValue
       IN  CommitAs(p, value = None, value)

\* mutant: the type is stored before the second check
CommitOverwrite(p) ==
    /\ proc[p].pc = "locked"
    /\ CommitAs(p, guards[GuardOf(p)].ResponseTypeValue # None, proc[p].kind)

\* mutant: the path that stores returns without the deferred Unlock
CommitKeepsLock(p) ==
    /\ proc[p].pc = "locked"
    /\ LET value == guards[GuardOf(p)].ResponseTypeValue
           r == [proc[p] EXCEPT !.pc = "done",
                     !.result = IF value # None THEN ErrInteractionAlreadyReplied
                                ELSE NilError]
       IN  /\ guards' = IF value # None
                         THEN [guards EXCEPT ![GuardOf(p)].writer = 0]
                         ELSE [guards EXCEPT
                                  ![GuardOf(p)].ResponseTypeValue = proc[p].kind]
           /\ proc' = [proc EXCEPT ![p] = r]
           /\ history' = Append(history, Returned(p, r))
    /\ UNCHANGED <<dpc, inter, events, logged, ncalls>>

\* mutant: nil is returned with the store left out
CommitForgets(p) ==
    /\ proc[p].pc = "locked"
    /\ LET value == guards[GuardOf(p)].ResponseTypeValue
       IN  CommitAs(p, value # None, value)

\* respond: the second check, the store, the deferred Unlock and the return
Commit(p) ==
    /\ proc[p].pc = "locked"
    /\ LET value == guards[GuardOf(p)].ResponseTypeValue
       IN  IF value # None
           THEN CommitAs(p, TRUE, value)
           ELSE CommitAs(p, FALSE, proc[p].kind)

Next ==
    \/ \E i \in Interactions, v \in Variants : GatewayHandlerInteractionCreate(i, v)
    \/ \E i \in Interactions, v \in Variants : HandleInteraction(i, v, TRUE)
    \/ \E i \in Interactions : SwitchInteraction(i)
    \/ \E p \in Procs, e \in 1..Len(events), k \in SendKinds : Call(p, e, "Respond", k)
    \/ \E p \in Procs, e \in 1..Len(events), op \in Ops \ {"Respond"} : Call(p, e, op, None)
    \/ \E p \in Procs : RUnlock(p)
    \/ \E p \in Procs, err \in RestResults : TransportReturn(p, err)
    \/ \E p \in Procs : Lock(p)
    \/ \E p \in Procs : Commit(p)

Spec == Init /\ [][Next]_vars

\* ------------------------------------------------------ the events' methods
CommandMethods ==
    {"Acknowledge", "CreateMessage", "DeferCreateMessage", "Modal",
     "LaunchActivity"}
ComponentMethods ==
    {"Acknowledge", "CreateMessage", "DeferCreateMessage", "UpdateMessage",
     "DeferUpdateMessage", "Modal", "LaunchActivity"}
AutocompleteMethods == {"Acknowledge", "AutocompleteResult"}
ModalSubmitMethods ==
    {"Acknowledge", "CreateMessage", "DeferCreateMessage", "UpdateMessage",
     "DeferUpdateMessage", "LaunchActivity"}

\* mutant: the autocomplete event with the message methods of the others
ReplyMethodsAutocompleteReplies(type) ==
    CASE type = Generic -> {}
      [] type = "ApplicationCommandInteractionCreate" -> CommandMethods
      [] type = "ComponentInteractionCreate" -> ComponentMethods
      [] type = "AutocompleteInteractionCreate" ->
             AutocompleteMethods \cup {"CreateMessage"}
      [] type = "ModalSubmitInteractionCreate" -> ModalSubmitMethods

\* mutant: the modal submit event with the Modal method of the component event
ReplyMethodsModalOnModal(type) ==
    CASE type = Generic -> {}
      [] type = "ApplicationCommandInteractionCreate" -> CommandMethods
      [] type = "ComponentInteractionCreate" -> ComponentMethods
      [] type = "AutocompleteInteractionCreate" -> AutocompleteMethods
      [] type = "ModalSubmitInteractionCreate" -> ComponentMethods

\* the methods of an event type that call e.Respond (InteractionCreate has
\* none: its subscribers call the Respond field)
ReplyMethods(type) ==
    CASE type = Generic -> {}
      [] type = "ApplicationCommandInteractionCreate" -> CommandMethods
      [] type = "ComponentInteractionCreate" -> ComponentMethods
      [] type = "AutocompleteInteractionCreate" -> AutocompleteMethods
      [] type = "ModalSubmitInteractionCreate" -> ModalSubmitMethods

RestMethods ==
    {"GetInteractionResponse", "UpdateInteractionResponse",
     "DeleteInteractionResponse", "GetFollowupMessage", "CreateFollowupMessage",
     "UpdateFollowupMessage", "DeleteFollowupMessage"}

\* the methods of an event type that go straight to e.Client().Rest
FollowupMethods(type) ==
    IF type = "AutocompleteInteractionCreate" THEN {} ELSE RestMethods

\* the arguments a reply method is called with: the ephemeral flag of
\* DeferCreateMessage, one payload for each method that takes one
MethodArgs(m) ==
    CASE m = "DeferCreateMessage" -> {"true", "false"}
      [] m = "CreateMessage" -> {"messageCreate"}
      [] m = "UpdateMessage" -> {"messageUpdate"}
      [] m = "Modal" -> {"modalCreate"}
      [] m = "AutocompleteResult" -> {"choices"}
      [] OTHER -> {None}

\* the responseType a reply method passes to e.Respond
MethodType(m) ==
    CASE m = "Acknowledge" -> Acknowledge
      [] m = "CreateMessage" -> CreateMessage
      [] m = "DeferCreateMessage" -> DeferredCreateMessage
      [] m = "UpdateMessage" -> UpdateMessage
      [] m = "DeferUpdateMessage" -> DeferredUpdateMessage
      [] m = "Modal" -> Modal
      [] m = "AutocompleteResult" -> AutocompleteResult
      [] m = "LaunchActivity" -> LaunchActivity

\* mutant: DeferCreateMessage with the test of its flag inverted
MethodDataInverted(m, a) ==
    CASE m = "DeferCreateMessage" ->
             IF a = "true" THEN None
             ELSE "MessageCreate{Flags: MessageFlagEphemeral}"
      [] m \in {"CreateMessage", "UpdateMessage", "Modal"} -> a
      [] m = "AutocompleteResult" -> "AutocompleteResult{Choices: " \o a \o "}"
      [] OTHER -> None

\* the data a reply method passes to e.Respond
MethodData(m, a) ==
    CASE m = "DeferCreateMessage" ->
             IF a = "true" THEN "MessageCreate{Flags: MessageFlagEphemeral}"
             ELSE None
      [] m \in {"CreateMessage", "UpdateMessage", "Modal"} -> a
      [] m = "AutocompleteResult" -> "AutocompleteResult{Choices: " \o a \o "}"
      [] OTHER -> None

\* a subscriber calls reply method m of event e with argument a
CallMethod(p, e, m, a) ==
    /\ e \in 1..Len(events)
    /\ m \in ReplyMethods(events[e].type)
    /\ a \in MethodArgs(m)
    /\ Enter(p, e, "Respond", MethodType(m),
             [method |-> m, arg |-> a, data |-> MethodData(m, a)])

\* the step of Followup with the result given for the call to the rest client
\* given (none when gated)
FollowupAs(p, e, m, calls, result) ==
    /\ proc[p].pc \in {"idle", "done"}
    /\ ncalls < MaxCalls
    /\ e \in 1..Len(events)
    /\ m \in FollowupMethods(events[e].type)
    /\ proc' = [proc EXCEPT ![p] =
           [pc |-> "done", op |-> "Followup", method |-> m, arg |-> None,
            ev |-> e, kind |-> None, data |-> None,
            guardAtCall |-> ResponseType(events[e].ResponseState),
            calls |-> calls, result |-> result]]
    /\ ncalls' = ncalls + 1
    /\ UNCHANGED <<dpc, inter, guards, events, logged, history>>

\* the call a follow-up method makes: e.Client().Rest.m(e.ApplicationID(),
\* e.Token(), ...), which returns err
RestCall(e, m, err) ==
    [transport |-> m, interaction |-> events[e].interaction,
     type |-> None, data |-> None, err |-> err]

\* mutant: a follow-up method behind the same check as respond
FollowupGated(p, e, m, err) ==
    /\ e \in 1..Len(events)
    /\ IF ResponseType(events[e].ResponseState) # None
       THEN FollowupAs(p, e, m, <<>>, ErrInteractionAlreadyReplied)
       ELSE FollowupAs(p, e, m, <<RestCall(e, m, err)>>, err)

\* a subscriber calls follow-up method m of event e: the method calls the
\* rest client and returns what it returns
Followup(p, e, m, err) ==
    /\ e \in 1..Len(events)
    /\ FollowupAs(p, e, m, <<RestCall(e, m, err)>>, err)

\* the subscribers of an interaction from the gateway reply through the
\* methods of the events instead of their fields
NextViews ==
    \/ \E i \in Interactions, v \in Variants : GatewayHandlerInteractionCreate(i, v)
    \/ \E i \in Interactions : SwitchInteraction(i)
    \/ \E p \in Procs, e \in 1..Len(events) :
           \E m \in ReplyMethods(events[e].type) :
               \E a \in MethodArgs(m) : CallMethod(p, e, m, a)
    \/ \E p \in Procs : RUnlock(p)
    \/ \E p \in Procs, err \in RestResults : TransportReturn(p, err)
    \/ \E p \in Procs : Lock(p)
    \/ \E p \in Procs : Commit(p)

SpecViews == Init /\ [][NextViews]_vars

\* the subscribers of an interaction from the gateway acknowledge it and use
\* the follow-up methods of the events
NextFollowups ==
    \/ \E i \in Interactions, v \in Variants : GatewayHandlerInteractionCreate(i, v)
    \/ \E i \in Interactions : SwitchInteraction(i)
    \/ \E p \in Procs, e \in 1..Len(events) :
           CallMethod(p, e, "Acknowledge", None)
    \/ \E p \in Procs, e \in 1..Len(events) :
           \E m \in FollowupMethods(events[e].type) :
               \E err \in RestResults : Followup(p, e, m, err)
    \/ \E p \in Procs : RUnlock(p)
    \/ \E p \in Procs, err \in RestResults : TransportReturn(p, err)
    \/ \E p \in Procs : Lock(p)
    \/ \E p \in Procs : Commit(p)

SpecFollowups == Init /\ [][NextFollowups]_vars

\* --------------------------------------------------------- two interactions
TwoInteractions == {1, 2}

InitIsolation ==
    /\ dpc = [i \in TwoInteractions |-> "new"]
    /\ inter = [i \in TwoInteractions |-> NoInteraction]
    /\ guards = <<>>
    /\ events = <<>>
    /\ logged = <<>>
    /\ proc = [p \in Procs |-> IdleProc]
    /\ history = <<>>
    /\ ncalls = 0

\* two component interactions from the gateway, dispatched in any order, and
\* subscribers that call Respond on their events
NextIsolation ==
    \/ \E i \in TwoInteractions : GatewayHandlerInteractionCreate(i, "Component")
    \/ \E i \in TwoInteractions : SwitchInteraction(i)
    \/ \E p \in Procs, e \in 1..Len(events) :
           \E k \in {Acknowledge, DeferredUpdateMessage} : Call(p, e, "Respond", k)
    \/ \E p \in Procs : RUnlock(p)
    \/ \E p \in Procs, err \in RestResults : TransportReturn(p, err)
    \/ \E p \in Procs : Lock(p)
    \/ \E p \in Procs : Commit(p)

SpecIsolation == InitIsolation /\ [][NextIsolation]_vars

\* ------------------------------------------------------------- termination
\* a component interaction from the gateway; its subscribers call Respond and
\* ResponseType on its events
NextTermination ==
    \/ \E i \in Interactions : GatewayHandlerInteractionCreate(i, "Component")
    \/ \E i \in Interactions : SwitchInteraction(i)
    \/ \E p \in Procs, e \in 1..Len(events) :
           \E k \in {Acknowledge, DeferredUpdateMessage} : Call(p, e, "Respond", k)
    \/ \E p \in Procs, e \in 1..Len(events) : Call(p, e, "ResponseType", None)
    \/ \E p \in Procs : RUnlock(p)
    \/ \E p \in Procs, err \in RestResults : TransportReturn(p, err)
    \/ \E p \in Procs : Lock(p)
    \/ \E p \in Procs : Commit(p)

\* a goroutine that can take its next step takes it, and a transport call
\* that was made returns
Fairness ==
    \A p \in Procs :
        /\ WF_vars(RUnlock(p))
        /\ WF_vars(\E err \in RestResults : TransportReturn(p, err))
        /\ WF_vars(Lock(p))
        /\ WF_vars(Commit(p))

SpecTermination == Init /\ [][NextTermination]_vars /\ Fairness

\* ================================================================= claims
\* the returned Respond calls made on interaction i
RespondsOn(i) == {k \in 1..Len(history) : events[history[k].ev].interaction = i}
\* the subscribers that are inside a Respond call on interaction i
RespondingOn(i) ==
    {p \in Procs : /\ proc[p].op = "Respond"
                   /\ proc[p].pc \notin {"idle", "done"}
                   /\ events[proc[p].ev].interaction = i}
\* the state object handleInteraction made for interaction i
StateOf(i) == inter[i].responseState
Dispatched == {i \in Interactions : dpc[i] # "new"}
Succeeded(i) == {k \in RespondsOn(i) : history[k].result = NilError}
Rejected(i) == {k \in RespondsOn(i) : history[k].result = ErrInteractionAlreadyReplied}
\* the call k reached the transport and the transport returned nil
Delivered(k) == history[k].calls # <<>> /\ history[k].calls[1].err = NilError
TransportFailed(k) ==
    history[k].calls # <<>> /\ history[k].calls[1].err \in TransportErrors
IsGeneric(e) == events[e].type = Generic

\* ---- C1: of all the Respond calls made for one interaction, through either
\* event, sequentially or concurrently, and whatever the transport returns,
\* at most one returns nil.
C1_AtMostOneSuccess ==
    \A i \in Dispatched : Cardinality(Succeeded(i)) <= 1

\* two overlapping calls returned, one through each event: one won, the other
\* lost at the second check after its own transport call had succeeded
C1_Witness ==
    \E i \in Dispatched :
        /\ Cardinality(Succeeded(i)) = 1
        /\ \E k \in Rejected(i) : Delivered(k)
        /\ \E j, k \in RespondsOn(i) :
               IsGeneric(history[j].ev) /\ ~IsGeneric(history[k].ev)

\* exactly two Respond calls were made on i and both have returned
TwoCalls(i) == Cardinality(RespondsOn(i)) = 2 /\ RespondingOn(i) = {}

OneWinnerOneRejected(i) ==
    /\ Cardinality(Succeeded(i)) = 1
    /\ Cardinality(Rejected(i)) = 1
    /\ \A k \in Succeeded(i) : ResponseType(StateOf(i)) = history[k].kind

\* ---- C2 as stated: two Respond calls on one interaction, of any kinds, in
\* any order or overlap and through either event, give exactly one nil and
\* one ErrInteractionAlreadyReplied, and the recorded type is the winner's.
C2_Original ==
    \A i \in Dispatched : TwoCalls(i) => OneWinnerOneRejected(i)

\* ---- C2 amended: the same, for two calls none of whose transport calls
\* returned an error.
C2_TwoCallsOneWinner ==
    \A i \in Dispatched :
        (TwoCalls(i) /\ \A k \in RespondsOn(i) : ~TransportFailed(k))
            => OneWinnerOneRejected(i)

\* Acknowledge through one event raced DeferCreateMessage(false) through the
\* other on a command interaction: both transport calls succeeded, one won
C2_Witness ==
    \E i \in Dispatched :
        /\ inter[i].variant = "ApplicationCommand"
        /\ TwoCalls(i)
        /\ \A k \in RespondsOn(i) : Delivered(k)
        /\ {history[k].kind : k \in RespondsOn(i)}
               = {Acknowledge, DeferredCreateMessage}
        /\ \E j, k \in RespondsOn(i) :
               IsGeneric(history[j].ev) /\ ~IsGeneric(history[k].ev)

\* the transport calls made for interaction i that returned nil, by the calls
\* that returned and by those still running
DeliveredReplies(i) ==
    {<<"returned", k>> : k \in {k \in RespondsOn(i) : Delivered(k)}}
    \cup {<<"running", p>> : p \in {p \in RespondingOn(i) :
              proc[p].calls # <<>> /\ proc[p].calls[1].err = NilError}}

\* ---- C3 as stated: for one interaction at most one outbound reply call
\* (respondFunc or CreateInteractionResponse) is made and succeeds.
C3_AtMostOneReplyDelivered ==
    \A i \in Dispatched : Cardinality(DeliveredReplies(i)) <= 1

\* ---- C4: ResponseTypeValue is assigned once: a new state object has none,
\* a recorded type never changes nor goes back to nil, and after a Respond
\* that returned nil ResponseType() is the type that call sent.
C4_SingleAssignment ==
    /\ [][\A g \in 1..Len(guards') :
            IF g \in 1..Len(guards)
            THEN guards[g].ResponseTypeValue # None
                    => guards'[g].ResponseTypeValue = guards[g].ResponseTypeValue
            ELSE guards'[g].ResponseTypeValue = None]_vars
    /\ [](\A i \in Dispatched : \A k \in Succeeded(i) :
            ResponseType(StateOf(i)) = history[k].kind)

\* a type is recorded, and a call of another kind that reached the locked
\* section after it has returned without changing it
C4_Witness ==
    \E i \in Dispatched : \E j \in Succeeded(i) : \E k \in Rejected(i) :
        /\ j < k
        /\ Delivered(k)
        /\ history[k].kind # history[j].kind
        /\ ResponseType(StateOf(i)) = history[j].kind

\* ---- C5: a Respond whose transport call fails returns the transport's error
\* as it is and records nothing: while no Respond has returned nil the state
\* holds no type, and a call whose transport call succeeds then returns nil
\* and records its type unless another call has won.
C5_TransportFailureLeavesGuardOpen ==
    \A i \in Dispatched :
        /\ \A k \in RespondsOn(i) :
               TransportFailed(k) => history[k].result = history[k].calls[1].err
        /\ Succeeded(i) = {} => ResponseType(StateOf(i)) = None
        /\ \A k \in RespondsOn(i) :
               Delivered(k) =>
                   \/ /\ history[k].result = NilError
                      /\ ResponseType(StateOf(i)) = history[k].kind
                   \/ Succeeded(i) \ {k} # {}

\* a subscriber's Respond failed in the transport and its next Respond, with
\* another kind, succeeded
C5_Witness ==
    \E i \in Dispatched : \E j, k \in RespondsOn(i) :
        /\ j < k
        /\ history[j].p = history[k].p
        /\ TransportFailed(j)
        /\ history[k].result = NilError
        /\ history[j].kind # history[k].kind
        /\ ResponseType(StateOf(i)) = history[k].kind

\* ---- C6: a Respond that starts when a type is already recorded returns
\* ErrInteractionAlreadyReplied, makes no transport call and leaves the
\* recorded type as it was.
C6_FastRejection ==
    /\ \A k \in 1..Len(history) :
           history[k].guardAtCall # None =>
               /\ history[k].result = ErrInteractionAlreadyReplied
               /\ history[k].calls = <<>>
               /\ ResponseType(events[history[k].ev].ResponseState)
                      = history[k].guardAtCall
    /\ \A p \in Procs :
           (proc[p].op = "Respond" /\ proc[p].guardAtCall # None) =>
               /\ proc[p].pc \in {"rlocked", "done"}
               /\ proc[p].calls = <<>>
               /\ ResponseType(events[proc[p].ev].ResponseState)
                      = proc[p].guardAtCall

\* a call that started after the reply was recorded has been turned away
C6_Witness ==
    \E k \in 1..Len(history) :
        /\ history[k].guardAtCall # None
        /\ history[k].kind # history[k].guardAtCall
        /\ history[k].result = ErrInteractionAlreadyReplied

\* subscriber p returns from the ResponseType() its call began with
Reads(p) == proc[p].pc = "rlocked" /\ proc'[p].pc # "rlocked"
\* a Respond on the interaction of event e that returned nil through another
\* event
WonThroughOther(e) ==
    {k \in Succeeded(events[e].interaction) : history[k].ev # e}

\* ---- C7: the two events of one dispatch carry the same responder and the
\* same state object: once a Respond through one of them has returned nil,
\* ResponseType() through the other returns the type sent and Respond through
\* the other returns ErrInteractionAlreadyReplied.
C7_SharedGuard ==
    /\ [](\A d, e \in 1..Len(events) :
            events[d].interaction = events[e].interaction =>
                /\ events[d].Respond = events[e].Respond
                /\ events[d].ResponseState = events[e].ResponseState
                /\ events[e].Respond.responseState = events[e].ResponseState)
    /\ [][\A p \in Procs : \A k \in 1..Len(history) :
            (Reads(p) /\ k \in WonThroughOther(proc[p].ev)) =>
                /\ proc[p].op = "ResponseType" =>
                       /\ proc'[p].pc = "done"
                       /\ proc'[p].result = history[k].kind
                /\ proc[p].op = "Respond" =>
                       /\ proc'[p].pc = "done"
                       /\ proc'[p].result = ErrInteractionAlreadyReplied]_vars

\* a Respond through the generic event won, and a ResponseType() called
\* afterwards through the variant event returned the type it sent
C7_Witness ==
    \E k \in 1..Len(history) : \E p \in Procs :
        /\ history[k].result = NilError
        /\ IsGeneric(history[k].ev)
        /\ proc[p].pc = "done"
        /\ proc[p].op = "ResponseType"
        /\ ~IsGeneric(proc[p].ev)
        /\ events[proc[p].ev].interaction = events[history[k].ev].interaction
        /\ proc[p].guardAtCall = history[k].kind
        /\ proc[p].result = history[k].kind

\* the types of the events dispatched for interaction i, in order
RECURSIVE TypesFrom(_, _)
TypesFrom(i, n) ==
    IF n > Len(events) THEN <<>>
    ELSE IF events[n].interaction = i
    THEN <<events[n].type>> \o TypesFrom(i, n + 1)
    ELSE TypesFrom(i, n + 1)
Broadcasts(i) == TypesFrom(i, 1)
Reports(i) == {k \in 1..Len(logged) : logged[k] = i}

\* ---- C8: handleInteraction for an interaction of one of the four known
\* variants dispatches exactly two events: the generic InteractionCreate and
\* the event of that variant, and no event of another variant.
C8_TwoBroadcasts ==
    \A i \in Interactions :
        (dpc[i] = "done" /\ inter[i].variant \in KnownVariants) =>
            Broadcasts(i) = <<Generic,
                CASE inter[i].variant = "ApplicationCommand"
                        -> "ApplicationCommandInteractionCreate"
                  [] inter[i].variant = "Component"
                        -> "ComponentInteractionCreate"
                  [] inter[i].variant = "Autocomplete"
                        -> "AutocompleteInteractionCreate"
                  [] inter[i].variant = "ModalSubmit"
                        -> "ModalSubmitInteractionCreate">>

\* a component interaction has been dispatched in full
C8_Witness ==
    \E i \in Interactions :
        /\ dpc[i] = "done"
        /\ inter[i].variant = "Component"
        /\ Len(Broadcasts(i)) = 2

\* ---- C9: handleInteraction for an interaction of no known variant dispatches
\* the generic InteractionCreate alone and reports one error to the logger; the
\* report reaches no subscriber: no call of theirs changes or returns by it.
C9_UnknownVariant ==
    /\ [](\A i \in Interactions :
            (dpc[i] = "done" /\ inter[i].variant \notin KnownVariants) =>
                /\ Broadcasts(i) = <<Generic>>
                /\ Cardinality(Reports(i)) = 1)
    /\ [](\A i \in Interactions :
            inter[i].variant \in KnownVariants => Reports(i) = {})
    /\ [][logged' # logged => (proc' = proc /\ history' = history)]_vars

\* an interaction of an unknown variant has been dispatched in full, and a
\* subscriber of the generic event replied to it
C9_Witness ==
    \E i \in Interactions :
        /\ dpc[i] = "done"
        /\ inter[i].variant = "Unknown"
        /\ Succeeded(i) # {}

\* subscriber p returns from a query
Answers(p) == Reads(p) /\ proc[p].op # "Respond"

\* ---- C10: IsDefferedReply() is true exactly when the recorded type is
\* DeferredCreateMessage, IsDefferedUpdate() exactly when it is
\* DeferredUpdateMessage, both are false while nothing is recorded, and a
\* query changes no recorded type.
C10_DeferredPredicates ==
    /\ [](\A g \in 1..Len(guards) :
            /\ IsDefferedReply(g)
                   <=> guards[g].ResponseTypeValue = DeferredCreateMessage
            /\ IsDefferedUpdate(g)
                   <=> guards[g].ResponseTypeValue = DeferredUpdateMessage
            /\ guards[g].ResponseTypeValue = None
                   => (~IsDefferedReply(g) /\ ~IsDefferedUpdate(g)))
    /\ [][\A p \in Procs : Answers(p) =>
            /\ \A g \in 1..Len(guards) :
                   guards'[g].ResponseTypeValue = guards[g].ResponseTypeValue
            /\ proc[p].op = "IsDefferedReply" =>
                   proc'[p].result =
                       (guards[GuardOf(p)].ResponseTypeValue = DeferredCreateMessage)
            /\ proc[p].op = "IsDefferedUpdate" =>
                   proc'[p].result =
                       (guards[GuardOf(p)].ResponseTypeValue = DeferredUpdateMessage)]_vars

\* with DeferredCreateMessage recorded, IsDefferedReply() has answered true
C10_Witness ==
    \E p \in Procs :
        /\ proc[p].pc = "done" /\ proc[p].op = "IsDefferedReply"
        /\ proc[p].result = TRUE
        /\ proc[p].guardAtCall = DeferredCreateMessage
        /\ guards[GuardOf(p)].ResponseTypeValue = DeferredCreateMessage

\* the Respond calls on interaction i whose transport call returned nil, in
\* the order in which they returned
DeliveredOn(i) == {k \in RespondsOn(i) : Delivered(k)}

\* ---- C14: when two Respond calls on one interaction both pass the first
\* check and both transport calls succeed, the one that commits second returns
\* ErrInteractionAlreadyReplied although its reply went out, and the recorded
\* type stays that of the one that committed first.
C14_SecondCommitterRejected ==
    \A i \in Dispatched : \A j, k \in DeliveredOn(i) :
        j < k =>
            /\ history[k].result = ErrInteractionAlreadyReplied
            /\ \E w \in DeliveredOn(i) :
                   /\ w <= j
                   /\ history[w].result = NilError
                   /\ ResponseType(StateOf(i)) = history[w].kind

\* both calls found the state empty, both replies went out, and the second to
\* commit, of another kind, was told ErrInteractionAlreadyReplied
C14_Witness ==
    \E i \in Dispatched : \E j, k \in DeliveredOn(i) :
        /\ j < k
        /\ history[j].guardAtCall = None /\ history[k].guardAtCall = None
        /\ history[j].p # history[k].p
        /\ history[j].kind # history[k].kind
        /\ history[k].result = ErrInteractionAlreadyReplied
        /\ ResponseType(StateOf(i)) = history[j].kind

\* the subscribers whose call is on state object g
CallsOn(g) == {p \in Procs : proc[p].pc \notin {"idle", "done"} /\ GuardOf(p) = g}

\* ---- C15: a Respond call holds the lock of the state object neither for
\* reading nor for writing while its transport call is in flight: the read lock
\* is held only during the first check and the write lock only after the
\* transport call has returned.
C15_NoLockWhileInFlight ==
    \A g \in 1..Len(guards) :
        /\ guards[g].readers = {p \in CallsOn(g) : proc[p].pc = "rlocked"}
        /\ guards[g].writer # 0 =>
               /\ guards[g].writer \in CallsOn(g)
               /\ proc[guards[g].writer].pc = "locked"
        /\ \A p \in CallsOn(g) :
               proc[p].pc \in {"inflight", "lock"} =>
                   (p \notin guards[g].readers /\ guards[g].writer # p)

\* while the transport call of one subscriber is in flight another subscriber
\* has taken the write lock of the same state object
C15_Witness ==
    \E p, q \in Procs :
        /\ p # q
        /\ proc[p].pc = "inflight"
        /\ proc[q].pc = "locked"
        /\ GuardOf(p) = GuardOf(q)

\* ---- C16: within one dispatch the variant event is never dispatched before
\* the generic InteractionCreate of the same interaction.
C16_GenericFirst ==
    \A n \in 1..Len(events) :
        events[n].type # Generic =>
            \E m \in 1..(n - 1) :
                /\ events[m].type = Generic
                /\ events[m].interaction = events[n].interaction

\* the variant event has been dispatched while a Respond through the generic
\* event is still in flight
C16_Witness ==
    \E i \in Interactions : \E p \in Procs :
        /\ dpc[i] = "done"
        /\ Len(Broadcasts(i)) = 2
        /\ proc[p].pc = "inflight"
        /\ IsGeneric(proc[p].ev)
        /\ events[proc[p].ev].interaction = i

\* ---- C17: a Respond call makes at most one transport call and never
\* retries: none when it is turned away at the first check, exactly one
\* otherwise, and what went wrong is what it returns: the transport's error or
\* ErrInteractionAlreadyReplied, never nil.
C17_OneTransportCall ==
    /\ \A p \in Procs :
           proc[p].op = "Respond" =>
               /\ Len(proc[p].calls) <= 1
               /\ proc[p].pc \in {"inflight", "lock", "locked"}
                      => Len(proc[p].calls) = 1
    /\ \A k \in 1..Len(history) :
           /\ history[k].guardAtCall # None =>
                  /\ history[k].calls = <<>>
                  /\ history[k].result = ErrInteractionAlreadyReplied
           /\ history[k].guardAtCall = None => Len(history[k].calls) = 1
           /\ TransportFailed(k) => history[k].result = history[k].calls[1].err
           /\ history[k].result = NilError => Delivered(k)

\* one call made its single transport call and returned nil; another was
\* turned away at the first check without making any
C17_Witness ==
    \E j, k \in 1..Len(history) :
        /\ history[j].calls = <<>>
        /\ history[j].result = ErrInteractionAlreadyReplied
        /\ Len(history[k].calls) = 1
        /\ history[k].result = NilError

\* a transport call made for interaction i goes where the sink given to
\* handleInteraction says, with the interaction's identity
RightTransport(c, i) ==
    /\ c.interaction = i
    /\ c.transport = IF inter[i].respondFunc THEN "respondFunc"
                     ELSE "CreateInteractionResponse"

\* ---- C18: the transport is fixed per interaction: every Respond that passes
\* the first check calls the sink when handleInteraction was given one and
\* CreateInteractionResponse with the interaction's ID and token when it was
\* not (as for every interaction from the gateway); never both, never neither.
C18_TransportSelection ==
    /\ \A k \in 1..Len(history) :
           /\ history[k].guardAtCall = None => Len(history[k].calls) = 1
           /\ \A n \in 1..Len(history[k].calls) :
                  RightTransport(history[k].calls[n],
                                 events[history[k].ev].interaction)
    /\ \A p \in Procs :
           proc[p].op = "Respond" =>
               /\ proc[p].pc \in {"inflight", "lock", "locked"}
                      => Len(proc[p].calls) = 1
               /\ \A n \in 1..Len(proc[p].calls) :
                      RightTransport(proc[p].calls[n],
                                     events[proc[p].ev].interaction)

\* on an interaction that came with a sink a failed reply and then a
\* successful one both went to the sink
C18_Witness ==
    \E i \in Dispatched : \E j, k \in RespondsOn(i) :
        /\ inter[i].respondFunc
        /\ j < k
        /\ TransportFailed(j)
        /\ Delivered(k)
        /\ history[j].calls[1].transport = "respondFunc"
        /\ history[k].calls[1].transport = "respondFunc"

\* the response types the reply methods of an event type can send
ViewKinds(type) == {MethodType(m) : m \in ReplyMethods(type)}
\* the events of interaction i of the given type
EventsOf(i, type) ==
    {e \in 1..Len(events) : events[e].interaction = i /\ events[e].type = type}
\* the response types of the calls to Respond made on events of the given
\* type, returned or not
KindsSent(type) ==
    {history[k].kind : k \in {n \in 1..Len(history) : events[history[n].ev].type = type}}
    \cup {proc[p].kind : p \in {q \in Procs : /\ proc[q].pc \notin {"idle", "done"}
                                              /\ proc[q].op = "Respond"
                                              /\ events[proc[q].ev].type = type}}
\* the response type recorded for interaction i is none or one of kinds
RecordsOnly(i, kinds) == ResponseType(StateOf(i)) \in {None} \cup kinds

\* C11 as stated: AutocompleteResult is the only response type a method of
\* AutocompleteInteractionCreate can send, and so the only one recorded for an
\* autocomplete interaction replied to through its event's methods.
C11_Original ==
    \A i \in Dispatched :
        /\ \A e \in EventsOf(i, "AutocompleteInteractionCreate") :
               ViewKinds(events[e].type) = {AutocompleteResult}
        /\ inter[i].variant = "Autocomplete" => RecordsOnly(i, {AutocompleteResult})

\* C11: the methods of AutocompleteInteractionCreate send Acknowledge and
\* AutocompleteResult and no other response type, so these are the only ones
\* recorded for an autocomplete interaction replied to through its event's
\* methods; the calls pass the checks of respond like every other: a call made
\* when a response type is recorded returns ErrInteractionAlreadyReplied without
\* a transport call, and at most one call succeeds.
C11_AutocompleteReplies ==
    \A i \in Dispatched :
        /\ \A e \in EventsOf(i, "AutocompleteInteractionCreate") :
               ViewKinds(events[e].type) = {Acknowledge, AutocompleteResult}
        /\ inter[i].variant = "Autocomplete" =>
               /\ KindsSent("AutocompleteInteractionCreate")
                      \subseteq {Acknowledge, AutocompleteResult}
               /\ RecordsOnly(i, {Acknowledge, AutocompleteResult})
               /\ Cardinality(Succeeded(i)) <= 1
               /\ \A k \in RespondsOn(i) :
                      history[k].guardAtCall # None =>
                          /\ history[k].result = ErrInteractionAlreadyReplied
                          /\ history[k].calls = <<>>

\* AutocompleteResult was called twice on the event of an autocomplete
\* interaction: the first call succeeded and its response type is recorded, the
\* second returned ErrInteractionAlreadyReplied.
C11_Witness ==
    \E i \in Dispatched :
        /\ inter[i].variant = "Autocomplete"
        /\ ResponseType(StateOf(i)) = AutocompleteResult
        /\ Len(history) = 2
        /\ \A k \in 1..2 : /\ history[k].method = "AutocompleteResult"
                           /\ events[history[k].ev].type = "AutocompleteInteractionCreate"
        /\ history[1].result = NilError
        /\ history[2].result = ErrInteractionAlreadyReplied

CommandKinds ==
    {Acknowledge, CreateMessage, DeferredCreateMessage, Modal, LaunchActivity}
ComponentKinds == CommandKinds \cup {UpdateMessage, DeferredUpdateMessage}

\* the response types of the three event types are those of kindsOf, and no
\* call to Respond on one of these events sends another
ViewKindsAre(kindsOf) ==
    \A i \in Dispatched :
        \A type \in DOMAIN kindsOf :
            /\ \A e \in EventsOf(i, type) : ViewKinds(events[e].type) = kindsOf[type]
            /\ KindsSent(type) \subseteq kindsOf[type]
            /\ EventsOf(i, type) # {} => RecordsOnly(i, kindsOf[type])

\* C12 as stated: the command event sends the five response types of
\* CommandKinds, the component event these and the two update types, and the
\* modal submit event the same seven as the component event.
C12_Original ==
    ViewKindsAre([ApplicationCommandInteractionCreate |-> CommandKinds,
                  ComponentInteractionCreate |-> ComponentKinds,
                  ModalSubmitInteractionCreate |-> ComponentKinds])

\* C12: the command event sends the five response types of CommandKinds, the
\* component event these and the two update types, and the modal submit event
\* those of the component event except Modal: a modal is opened from the command
\* and component events only.
C12_ViewKinds ==
    ViewKindsAre([ApplicationCommandInteractionCreate |-> CommandKinds,
                  ComponentInteractionCreate |-> ComponentKinds,
                  ModalSubmitInteractionCreate |-> ComponentKinds \ {Modal}])

\* UpdateMessage was called on the event of a modal submit interaction and its
\* response type is recorded.
C12_Witness ==
    \E i \in Dispatched :
        /\ inter[i].variant = "ModalSubmit"
        /\ ResponseType(StateOf(i)) = UpdateMessage
        /\ \E k \in Succeeded(i) :
               /\ history[k].method = "UpdateMessage"
               /\ events[history[k].ev].type = "ModalSubmitInteractionCreate"


\* the call r to Respond passed the response type and the data given, and so
\* did every transport call it made
Sends(r, kind, data) ==
    /\ r.kind = kind
    /\ r.data = data
    /\ \A n \in 1..Len(r.calls) : r.calls[n].type = kind /\ r.calls[n].data = data

EphemeralFlag == "MessageCreate{Flags: MessageFlagEphemeral}"

\* the call r made through a reply method sent what the method's name says
SendsAsNamed(r) ==
    /\ r.method = "Acknowledge" => Sends(r, Acknowledge, None)
    /\ r.method = "LaunchActivity" => Sends(r, LaunchActivity, None)
    /\ r.method = "CreateMessage" => r.arg # None /\ Sends(r, CreateMessage, r.arg)
    /\ r.method = "UpdateMessage" => r.arg # None /\ Sends(r, UpdateMessage, r.arg)
    /\ r.method = "Modal" => r.arg # None /\ Sends(r, Modal, r.arg)
    /\ r.method = "AutocompleteResult" =>
           /\ r.arg # None
           /\ Sends(r, AutocompleteResult, "AutocompleteResult{Choices: " \o r.arg \o "}")
    /\ r.method = "DeferUpdateMessage" => Sends(r, DeferredUpdateMessage, None)
    /\ r.method = "DeferCreateMessage" =>
           /\ r.kind = DeferredCreateMessage
           /\ r.data = EphemeralFlag <=> r.arg = "true"
           /\ r.data \in {EphemeralFlag, None}
           /\ Sends(r, DeferredCreateMessage, r.data)

\* C20: every call made through a reply method, returned or not, passes the
\* response type of the method's name to Respond and to the transport: with no
\* data for Acknowledge, LaunchActivity and DeferUpdateMessage, with the
\* argument as data for CreateMessage, UpdateMessage and Modal, with the choices
\* for AutocompleteResult, and for DeferCreateMessage with the ephemeral flag
\* exactly when its argument is true and no data otherwise; the response type
\* recorded after a success is the one of the method.
C20_MethodsSendAsNamed ==
    /\ \A p \in Procs :
           proc[p].op = "Respond" =>
               proc[p].method \in ReplyMethods(events[proc[p].ev].type) /\ SendsAsNamed(proc[p])
    /\ \A k \in 1..Len(history) :
           /\ history[k].method \in ReplyMethods(events[history[k].ev].type)
           /\ SendsAsNamed(history[k])
           /\ history[k].result = NilError =>
                  ResponseType(Target(history[k].ev, "Respond")) = history[k].kind

\* DeferCreateMessage(false) failed in the transport with no data sent, then
\* DeferCreateMessage(true) was delivered with the ephemeral flag and its
\* response type is recorded.
C20_Witness ==
    /\ Len(history) = 2
    /\ history[1].method = "DeferCreateMessage" /\ history[1].arg = "false"
    /\ history[1].calls # <<>> /\ history[1].calls[1].data = None
    /\ history[1].result \in TransportErrors
    /\ history[2].method = "DeferCreateMessage" /\ history[2].arg = "true"
    /\ Delivered(2) /\ history[2].calls[1].data = EphemeralFlag
    /\ history[2].calls[1].type = DeferredCreateMessage
    /\ history[2].result = NilError
    /\ ResponseType(Target(history[2].ev, "Respond")) = DeferredCreateMessage


\* the step is a call of a follow-up method by subscriber p
FollowupBy(p) ==
    /\ ncalls' = ncalls + 1
    /\ proc'[p].op = "Followup"
    /\ proc'[p].pc = "done"
    /\ \A q \in Procs \ {p} : proc'[q] = proc[q]

\* subscriber p can call the follow-up methods of every event that has them
CanFollowup(p) ==
    \A e \in 1..Len(events) :
        \A m \in FollowupMethods(events[e].type) : ENABLED Followup(p, e, m, NilError)

\* C13: a follow-up method (Get/Update/DeleteInteractionResponse,
\* Get/Create/Update/DeleteFollowupMessage) makes one call to the method of the
\* same name of the rest client and returns its result, which is never
\* ErrInteractionAlreadyReplied, and it leaves every response state and the
\* record of the calls to Respond unchanged; a subscriber that is not in a call
\* can call it whatever response type is recorded, calls to Respond in progress
\* or not.
C13_FollowupsNotGated ==
    /\ [][\A p \in Procs :
              FollowupBy(p) =>
                  /\ guards' = guards
                  /\ history' = history
                  /\ proc'[p].method \in RestMethods
                  /\ Len(proc'[p].calls) = 1
                  /\ proc'[p].calls[1].transport = proc'[p].method
                  /\ proc'[p].result = proc'[p].calls[1].err
                  /\ proc'[p].result # ErrInteractionAlreadyReplied]_vars
    /\ [](\A p \in Procs :
              proc[p].pc \in {"idle", "done"} /\ ncalls < MaxCalls => CanFollowup(p))

\* A follow-up method was called on an event whose interaction had Acknowledge
\* recorded: it called the rest client, returned nil, and Acknowledge is still
\* recorded.
C13_Witness ==
    \E p \in Procs :
        /\ proc[p].op = "Followup"
        /\ proc[p].pc = "done"
        /\ proc[p].guardAtCall = Acknowledge
        /\ Len(proc[p].calls) = 1
        /\ proc[p].result = NilError
        /\ ResponseType(events[proc[p].ev].ResponseState) = Acknowledge
        /\ Succeeded(events[proc[p].ev].interaction) # {}


\* the interactions handleInteraction was called for, of the two
DispatchedOfTwo == {i \in TwoInteractions : dpc[i] # "new"}
\* the step is the start of handleInteraction for interaction i
Dispatches(i) == dpc[i] = "new" /\ dpc'[i] # "new"
\* the response type recorded in state object g
Recorded(g) == guards[g].ResponseTypeValue
\* the step is the store of respond by a call on interaction i
CommitsOn(i) ==
    \E p \in Procs :
        /\ proc[p].pc = "locked"
        /\ proc'[p].pc = "done"
        /\ events[proc[p].ev].interaction = i

\* C19: handleInteraction makes a new state object with no response type for
\* every interaction and leaves the others as they are; two interactions never
\* have the same one; the response type recorded for an interaction changes
\* only in the store of a call to Respond on that interaction; and a call to
\* Respond on an interaction is rejected with ErrInteractionAlreadyReplied only
\* after a call on the same interaction succeeded, never at the first check
\* when its own interaction has no response type recorded.
C19_FreshGuardPerInteraction ==
    /\ [](\A i \in DispatchedOfTwo : \A j \in DispatchedOfTwo \ {i} :
              StateOf(i) # StateOf(j))
    /\ [][\A i \in TwoInteractions :
              /\ Dispatches(i) =>
                     /\ inter'[i].responseState \notin DOMAIN guards
                     /\ guards'[inter'[i].responseState] = NewInteractionResponseState
                     /\ \A g \in DOMAIN guards : guards'[g] = guards[g]
              /\ i \in DispatchedOfTwo /\ Recorded(StateOf(i))' # Recorded(StateOf(i)) =>
                     CommitsOn(i)]_vars
    /\ [](\A i \in DispatchedOfTwo : \A k \in RespondsOn(i) :
              /\ history[k].result = ErrInteractionAlreadyReplied =>
                     /\ Succeeded(i) # {}
                     /\ \E n \in Succeeded(i) : Recorded(StateOf(i)) = history[n].kind
              /\ history[k].guardAtCall = None => history[k].calls # <<>>
              /\ history[k].guardAtCall # None => Succeeded(i) # {})

\* Both interactions are dispatched; Acknowledge was sent on one and
\* DeferredUpdateMessage on the other after it, both calls succeeded, and each
\* interaction has its own response type recorded.
C19_Witness ==
    /\ DispatchedOfTwo = TwoInteractions
    /\ Len(history) = 2
    /\ events[history[1].ev].interaction = 1
    /\ events[history[2].ev].interaction = 2
    /\ history[1].kind = Acknowledge /\ history[1].result = NilError
    /\ history[2].kind = DeferredUpdateMessage /\ history[2].result = NilError
    /\ history[2].guardAtCall = None
    /\ Recorded(StateOf(1)) = Acknowledge
    /\ Recorded(StateOf(2)) = DeferredUpdateMessage


\* C21: in every state, with two interactions and calls on both in any
\* order, a response type is recorded for an interaction exactly when one call
\* to Respond on that interaction has returned nil, and never have two; the
\* call that returned nil sent the recorded type and its transport call
\* returned nil, so a recorded type was delivered by a transport call of that
\* type, and before any interaction is dispatched there is no state object.
C21_RecordedIffOneCommitted ==
    /\ DispatchedOfTwo = {} => guards = <<>>
    /\ \A i \in DispatchedOfTwo :
           LET recorded == ResponseType(StateOf(i))
           IN  /\ Cardinality(Succeeded(i)) <= 1
               /\ recorded # None <=> Cardinality(Succeeded(i)) = 1
               /\ \A k \in Succeeded(i) :
                      /\ history[k].kind = recorded
                      /\ Len(history[k].calls) = 1
                      /\ history[k].calls[1].err = NilError
                      /\ history[k].calls[1].type = recorded
               /\ recorded # None =>
                      \E k \in DeliveredOn(i) : history[k].calls[1].type = recorded

\* One call returned nil and its type is recorded, while another call, of
\* another type, has its reply delivered and waits for the lock: delivered but
\* not committed.
C21_Witness ==
    \E i \in DispatchedOfTwo : \E k \in Succeeded(i) : \E p \in Procs :
        /\ Succeeded(i) = {k}
        /\ ResponseType(StateOf(i)) = history[k].kind
        /\ proc[p].pc = "lock"
        /\ events[proc[p].ev].interaction = i
        /\ proc[p].kind # history[k].kind
        /\ proc[p].calls[1].err = NilError


\* subscriber p is in a call
InCall(p) == proc[p].pc \notin {"idle", "done"}
\* subscriber p holds no lock of any state object
HoldsNoLock(p) ==
    \A g \in DOMAIN guards : guards[g].writer # p /\ p \notin guards[g].readers
\* what a call that returned has returned
ReturnedProperly(p) ==
    /\ proc[p].pc = "done"
    /\ proc[p].op = "Respond" =>
           proc[p].result \in {NilError, ErrInteractionAlreadyReplied} \cup RestResults
    /\ proc[p].op = "ResponseType" =>
           proc[p].result \in {None, Acknowledge, DeferredUpdateMessage}

\* C22: when every transport call returns and every goroutine that can run
\* does, every call to Respond or ResponseType returns: Respond with nil,
\* ErrInteractionAlreadyReplied or the error of the transport; a subscriber
\* holds the read lock only inside ResponseType and the write lock only between
\* Lock and the return of respond, so none that is out of a call holds a lock;
\* and as long as a call is in progress some call can take a step.
C22_RespondTerminates ==
    /\ \A p \in Procs : InCall(p) ~> ReturnedProperly(p)
    /\ [](\A p \in Procs :
              /\ ~InCall(p) => HoldsNoLock(p)
              /\ \A g \in DOMAIN guards :
                     /\ guards[g].writer = p => proc[p].pc = "locked"
                     /\ p \in guards[g].readers => proc[p].pc = "rlocked")
    /\ []((\E p \in Procs : InCall(p)) =>
              \E q \in Procs :
                  \/ ENABLED RUnlock(q)
                  \/ ENABLED TransportReturn(q, NilError)
                  \/ ENABLED Lock(q)
                  \/ ENABLED Commit(q))

\* A call to Respond waits for the write lock while another subscriber is
\* inside ResponseType with the read lock.
C22_Witness ==
    \E p \in Procs : \E q \in Procs \ {p} :
        /\ proc[p].pc = "lock"
        /\ proc[q].pc = "rlocked"
        /\ proc[q].op = "ResponseType"
        /\ GuardOf(p) = GuardOf(q)
        /\ q \in guards[GuardOf(p)].readers
        /\ ~ENABLED Lock(p)

====
